---- MODULE Spec2Model ----
(***************************************************************************)
(* Market-Intelligence: the recursive forecast engine                      *)
(* (utils/predictor.py), the correlation enforcement layer                 *)
(* (utils/correlation_enforcer.py) and the multi-factor signal generator   *)
(* (utils/signal_generator.py).                                            *)
(*                                                                         *)
(* Arithmetic.  The program computes in IEEE doubles.  Here every real     *)
(* quantity is a fixed-point integer and every operation that rounds in    *)
(* the program rounds here (to the nearest grid point), so a round trip    *)
(* such as price -> return -> price is not the identity.  The one special  *)
(* value the claims depend on, NaN, is kept: it is a reserved value and    *)
(* the operations propagate it the way numpy does.                         *)
(***************************************************************************)
EXTENDS Integers, Sequences, FiniteSets, TLC

(***************************************************************************)
(* Bounds of the model                                                     *)
(***************************************************************************)
\* longest forecast horizon requested (steps argument of recursive_forecast)
MaxSteps == 3
\* number of recursive_forecast calls made on one AssetPredictor
MaxCalls == 2
\* window size of gold and of the stocks (60 in utils/config.py)
SeqLenStd == 2
\* window size of btc (90 in utils/config.py): longer than the others
SeqLenBtc == 3

(***************************************************************************)
(* Numbers                                                                 *)
(***************************************************************************)
\* 1.0 in normalized (scaled) units
ONE == 10 * 1000 * 1000

\* float NaN: a reserved value outside the range of every number used here
NaN == 0 - (1000 * 1000 * 1000)

IsNaN(x) == x = NaN

\* float inf: the quotient of a positive number by 0.0 in numpy arithmetic
Inf == 1000 * 1000 * 1000

Abs(x) == IF x < 0 THEN 0 - x ELSE x

\* n / d rounded to the nearest grid point (d > 0), halves rounded up
RoundDiv(n, d) == (2 * n + d) \div (2 * d)

\* Python's builtin max(a, b) on numbers
PyMax(a, b) == IF b > a THEN b ELSE a

RECURSIVE SumSeq(_)
SumSeq(s) == IF s = << >> THEN 0 ELSE Head(s) + SumSeq(Tail(s))

\* the last n elements of s, all of s when it is shorter: s[-n:]
LastN(s, n) == IF Len(s) <= n THEN s ELSE SubSeq(s, Len(s) - n + 1, Len(s))

(***************************************************************************)
(* utils/config.py                                                         *)
(***************************************************************************)
AssetKeys == {"gold", "btc", "spy"}

features(asset_key) ==
    IF asset_key = "gold" THEN <<"Gold", "DXY", "VIX", "Yield_10Y", "Sentiment">>
    ELSE IF asset_key = "btc"
         THEN <<"BTC", "DXY", "VIX", "Yield_10Y", "Sentiment", "Halving_Cycle">>
         ELSE <<"SPY", "DXY", "VIX", "Yield_10Y", "Sentiment">>

sequence_length(asset_key) == IF asset_key = "btc" THEN SeqLenBtc ELSE SeqLenStd

(***************************************************************************)
(* The fitted MinMaxScaler (scaler.pkl): per feature, data_min_ in raw     *)
(* units and scale_ in normalized units per raw unit.                      *)
(***************************************************************************)
IsPrice(f_name) == f_name \in {"Gold", "BTC", "SPY"}

\* prices in cents, DXY / VIX / yield / sentiment in hundredths, halving in days
data_min_(f_name) ==
    CASE IsPrice(f_name) -> 1000
      [] f_name = "DXY" -> 9000
      [] f_name = "VIX" -> 1000
      [] f_name = "Yield_10Y" -> 0
      [] f_name = "Sentiment" -> 0 - 100
      [] OTHER -> 0

scale_(f_name) ==
    CASE IsPrice(f_name) -> 50
      [] f_name = "DXY" -> 2500
      [] f_name = "VIX" -> 1250
      [] f_name = "Yield_10Y" -> 20000
      [] f_name = "Sentiment" -> 50000
      [] OTHER -> 8000

\* scaler.transform on one value: X * scale_ + min_, min_ = -data_min_ * scale_
transform(f_name, x) == (x - data_min_(f_name)) * scale_(f_name)

\* scaler.inverse_transform on one value: (X - min_) / scale_
inverse_transform(f_name, s) ==
    IF IsNaN(s) THEN NaN ELSE data_min_(f_name) + RoundDiv(s, scale_(f_name))

transform_frame(asset_key, frame) ==
    [f \in 1..Len(frame) |-> transform(features(asset_key)[f], frame[f])]

(***************************************************************************)
(* The historical series in the data file: rows the CSV can hold           *)
(***************************************************************************)
\* a row close to the scaler's minimum price, and a row in mid range
RowLow(asset_key) ==
    IF asset_key = "btc" THEN <<2000, 10400, 1600, 400, 10, 2>>
    ELSE <<2000, 10400, 1600, 400, 10>>

RowMid(asset_key) ==
    IF asset_key = "btc" THEN <<101000, 10900, 1100, 450, 0 - 20, 0>>
    ELSE <<101000, 10900, 1100, 450, 0 - 20>>

Rows(asset_key) == {RowLow(asset_key), RowMid(asset_key)}

MaxHist == SeqLenBtc + 1

Series(asset_key) == UNION {[1..n -> Rows(asset_key)] : n \in 0..MaxHist}

(***************************************************************************)
(* The regressor (model.predict): an opaque function of the window.  Its   *)
(* answer at each step is one of these kinds; the answer it gave at step i *)
(* is remembered, so that the same window gets the same answer again.      *)
(***************************************************************************)
RegKinds == {"last", "low", "high", "nudge", "nan"}

RegValue(kind, window) ==
    LET last == window[Len(window)][1]
    IN  CASE kind = "last" -> last
          [] kind = "low" -> 0 - (3 * ONE)
          [] kind = "high" -> 3 * ONE
          [] kind = "nudge" -> IF IsNaN(last) THEN NaN ELSE last + 30000
          [] OTHER -> NaN

VARIABLES
    TF_AVAILABLE,     \* the tensorflow import succeeded
    model_exists,     \* os.path.exists(model_path)
    scaler_exists,    \* os.path.exists(scaler_path)
    load_raises,      \* load_model()/pickle.load raise on the artifacts
    data_exists,      \* os.path.exists(data_path)
    csv,              \* the rows of the data file
    asset_key,        \* self.asset_key
    regressor,        \* answers of the model so far, by step
    is_loaded,        \* self.is_loaded
    data,             \* self.data: <<>> is None, <<rows>> once loaded
    fc_pc,            \* "idle", "loop", "returned", "raised"
    fc_error,         \* the exception recursive_forecast raised
    calls,            \* recursive_forecast calls made so far
    steps,            \* argument of the running call
    i,                \* loop index
    scaled_means,     \* scaled_means
    current_batch,    \* the initial window
    temp_data,        \* the sliding window
    predictions,      \* predictions (scaled)
    ai_deltas,        \* ai_delta after np.clip, one per step
    unfloored,        \* predictions_original before the floor
    fc_result,        \* the returned list
    fc_log            \* what each finished call was asked and answered

fc_vars == <<TF_AVAILABLE, model_exists, scaler_exists, load_raises, data_exists,
             csv, asset_key, regressor, is_loaded, data, fc_pc, fc_error, calls,
             steps, i, scaled_means, current_batch, temp_data, predictions,
             ai_deltas, unfloored, fc_result, fc_log>>

VARIABLES
    sg_pc,            \* "idle", "done", "raised"
    sg_asset,         \* SignalGenerator.asset_key
    latest,           \* the last row of the data file, as the analyses read it
    forecast_1w,      \* the dict predict_week() returned
    fed_signal,       \* FedWatchFetcher.get_fed_signal()
    trends_signal,    \* GoogleTrendsFetcher.get_trend_signal(asset_key)
    reddit_signal,    \* RedditSentimentAnalyzer.get_sentiment_signal(asset_key)
    factors,          \* _analyze_factors(latest, forecast_1w)
    signal_data       \* the dict generate_signal() returned

sg_vars == <<sg_pc, sg_asset, latest, forecast_1w, fed_signal, trends_signal,
             reddit_signal, factors, signal_data>>

VARIABLES
    ref_hist,             \* prices of data/SPY_global_insights.csv (<<>>: no file)
    asset_hist,           \* prices of data/QQQ_global_insights.csv (<<>>: no file)
    betas,                \* self.betas
    correlations,         \* self.correlations
    enf_pc,               \* "ready", "returned", "raised", "validated",
                          \* "validate_raised"
    enf_error,            \* the exception enforce_predictions raised
    predictions_dict,     \* argument of enforce_predictions
    adjustment_strength,  \* argument of enforce_predictions, in tenths
    adjusted_predictions, \* the dict enforce_predictions returned
    caller_dict,          \* the dict object the last call was given, after the call
    metrics,              \* the dict validate_enforcement returned
    enf_calls             \* calls made on the enforcer since construction

enf_vars == <<ref_hist, asset_hist, betas, correlations, enf_pc, enf_error,
              predictions_dict, adjustment_strength, adjusted_predictions,
              caller_dict, metrics, enf_calls>>

VARIABLES
    an_pc,            \* "idle", "done", "raised"
    an_current,       \* argument current_price of analyze_forecast
    an_forecast,      \* argument forecast_prices of analyze_forecast
    insights          \* the dict analyze_forecast returned

an_vars == <<an_pc, an_current, an_forecast, insights>>

VARIABLES
    bt_pc,            \* "idle", "loop", "done", "raised"
    bt_op,            \* which batch function runs
    asset_keys,       \* its argument
    bt_k,             \* keys of the list processed so far
    engine,           \* per key: what recursive_forecast did for it
    results           \* the dict being built, then returned

bt_vars == <<bt_pc, bt_op, asset_keys, bt_k, engine, results>>

vars == <<fc_vars, sg_vars, enf_vars, an_vars, bt_vars>>

(***************************************************************************)
(* AssetPredictor.load_model: "raise", "false" or "true"                   *)
(***************************************************************************)
load_model ==
    IF ~TF_AVAILABLE THEN "false"
    ELSE IF ~model_exists THEN "FileNotFoundError"
    ELSE IF ~scaler_exists THEN "FileNotFoundError"
    ELSE IF load_raises THEN "false"
    ELSE "true"

\* np.clip(x, lo, hi): NaN stays NaN
np_clip(x, lo, hi) ==
    IF IsNaN(x) THEN NaN ELSE IF x < lo THEN lo ELSE IF x > hi THEN hi ELSE x

\* np.maximum(x, floor): NaN stays NaN
np_maximum(x, floor) ==
    IF IsNaN(x) \/ IsNaN(floor) THEN NaN ELSE IF x < floor THEN floor ELSE x

\* the clip bound 0.008 in normalized units
ClipBound == (8 * ONE) \div 1000

\* trust_factor = max(0.05, 1.0 - i / 365.0), as a multiple of 1/7300
TrustDen == 7300

trust_factor(step) == PyMax(TrustDen \div 20, TrustDen - 20 * step)

\* decay = 0.99 if asset_key != 'btc' else 0.97, in hundredths
decay(key) == IF key # "btc" THEN 99 ELSE 97

\* ai_delta = np.clip(pred_scaled - prev_price_scaled, -0.008, 0.008)
ai_delta(pred_scaled, prev_price_scaled) ==
    IF IsNaN(pred_scaled) \/ IsNaN(prev_price_scaled) THEN NaN
    ELSE np_clip(pred_scaled - prev_price_scaled, 0 - ClipBound, ClipBound)

\* ai_movement = ai_delta * decay * trust_factor
ai_movement(delta, key, step) ==
    IF IsNaN(delta) THEN NaN
    ELSE RoundDiv(RoundDiv(delta * decay(key), 100) * trust_factor(step), TrustDen)

\* anchor_pull = (start - prev) * (1.0 - trust_factor) * 0.01
anchor_pull(start_price_scaled, prev_price_scaled, step) ==
    IF IsNaN(start_price_scaled) \/ IsNaN(prev_price_scaled) THEN NaN
    ELSE RoundDiv(RoundDiv((start_price_scaled - prev_price_scaled)
                             * (TrustDen - trust_factor(step)), TrustDen), 100)

new_price_scaled(pred_scaled, prev_price_scaled, start_price_scaled, key, step) ==
    LET mv == ai_movement(ai_delta(pred_scaled, prev_price_scaled), key, step)
        pull == anchor_pull(start_price_scaled, prev_price_scaled, step)
    IN  IF IsNaN(mv) \/ IsNaN(pull) THEN NaN ELSE prev_price_scaled + mv + pull

\* the per-feature update of the next frame (features 1..n-1 of the code)
\* the drift with the difference taken the other way round
next_feature_diverging(f_name, prev_value, target) ==
    IF f_name = "Halving_Cycle" THEN PyMax(0, prev_value - scale_(f_name))
    ELSE IF f_name \in {"Sentiment", "DXY", "VIX", "Yield_10Y"}
         THEN prev_value + RoundDiv((prev_value - target) * 2, 1000)
         ELSE prev_value

next_feature(f_name, prev_value, target) ==
    IF f_name = "Halving_Cycle" THEN PyMax(0, prev_value - scale_(f_name))
    ELSE IF f_name \in {"Sentiment", "DXY", "VIX", "Yield_10Y"}
         THEN prev_value + RoundDiv((target - prev_value) * 2, 1000)
         ELSE prev_value

next_frame(key, prev_frame, new_price, means) ==
    [f \in 1..Len(prev_frame) |->
        IF f = 1 THEN new_price
        ELSE next_feature(features(key)[f], prev_frame[f], means[f])]

\* scaled_means: the scaler applied to np.mean(self.data, axis=0)
scaled_mean_of(key, rows) ==
    [f \in 1..Len(features(key)) |->
        RoundDiv(SumSeq([r \in 1..Len(rows) |->
                          transform(features(key)[f], rows[r][f])]), Len(rows))]

FcEnv == <<TF_AVAILABLE, model_exists, scaler_exists, load_raises, data_exists,
           csv, asset_key>>

FcLocals == <<steps, i, scaled_means, current_batch, temp_data, predictions,
              ai_deltas, unfloored>>

\* the window of a call that starts from what the previous call left
initial_window_stale(scaled_data, seq_len, previous) ==
    IF previous # << >> THEN previous ELSE LastN(scaled_data, seq_len)

\* current_batch = scaled_data[-seq_len:], temp_data = current_batch.copy()
initial_window(scaled_data, seq_len, previous) == LastN(scaled_data, seq_len)

\* recursive_forecast(n) returns [] before the loop
ReturnEmpty(n) ==
    /\ fc_pc' = "returned"
    /\ fc_result' = << >>
    /\ fc_error' = "none"
    /\ steps' = n
    /\ fc_log' = Append(fc_log, [steps |-> n, error |-> "none", result |-> << >>])
    /\ UNCHANGED <<is_loaded, data, regressor, i, scaled_means, current_batch,
                   temp_data, predictions, ai_deltas, unfloored>>

\* recursive_forecast(n) raises before the loop
Raise(n, err, loaded, d) ==
    /\ fc_pc' = "raised"
    /\ fc_error' = err
    /\ fc_result' = << >>
    /\ steps' = n
    /\ is_loaded' = loaded
    /\ data' = d
    /\ fc_log' = Append(fc_log, [steps |-> n, error |-> err, result |-> << >>])
    /\ UNCHANGED <<regressor, i, scaled_means, current_batch, temp_data,
                   predictions, ai_deltas, unfloored>>

\* recursive_forecast(n), lines 152-177: up to the first loop iteration
CallForecast(n) ==
    /\ fc_pc \in {"idle", "returned", "raised"}
    /\ calls < MaxCalls
    /\ calls' = calls + 1
    /\ UNCHANGED FcEnv
    /\ UNCHANGED <<sg_vars, enf_vars, an_vars, bt_vars>>
    /\ IF ~TF_AVAILABLE THEN ReturnEmpty(n)
       ELSE IF ~is_loaded /\ load_model = "FileNotFoundError"
            THEN Raise(n, "FileNotFoundError", is_loaded, data)
       ELSE IF ~is_loaded /\ load_model = "false" THEN ReturnEmpty(n)
       ELSE IF data = << >> /\ ~data_exists
            THEN Raise(n, "FileNotFoundError", TRUE, data)
       ELSE LET d == IF data = << >> THEN <<csv>> ELSE data
                rows == d[1]
                seq_len == sequence_length(asset_key)
                scaled_data == [r \in 1..Len(rows) |-> transform_frame(asset_key, rows[r])]
            IN  IF Len(rows) < seq_len
                THEN \* no rows: scaler.transform rejects an empty array;
                     \* too few rows: reshape(1, seq_len, n) fails
                     Raise(n, "ValueError", TRUE, d)
                ELSE /\ is_loaded' = TRUE
                     /\ data' = d
                     /\ fc_pc' = "loop"
                     /\ fc_error' = "none"
                     /\ fc_result' = << >>
                     /\ steps' = n
                     /\ i' = 0
                     /\ scaled_means' = scaled_mean_of(asset_key, rows)
                     /\ current_batch' = initial_window(scaled_data, seq_len, temp_data)
                     /\ temp_data' = initial_window(scaled_data, seq_len, temp_data)
                     /\ predictions' = << >>
                     /\ ai_deltas' = << >>
                     /\ unfloored' = << >>
                     /\ UNCHANGED <<regressor, fc_log>>

\* one iteration of the loop, lines 179-246
ForecastStep ==
    /\ fc_pc = "loop"
    /\ i < steps
    /\ \E kind \in RegKinds :
        /\ IF i < Len(regressor) THEN kind = regressor[i + 1] ELSE TRUE
        /\ regressor' = IF i < Len(regressor) THEN regressor
                        ELSE Append(regressor, kind)
        /\ LET pred_scaled == RegValue(kind, temp_data)
               prev_frame == temp_data[Len(temp_data)]
               prev_price_scaled == prev_frame[1]
               start_price_scaled == current_batch[Len(current_batch)][1]
               new_price == new_price_scaled(pred_scaled, prev_price_scaled,
                                             start_price_scaled, asset_key, i)
               last_frame == next_frame(asset_key, prev_frame, new_price, scaled_means)
           IN  /\ temp_data' = Append(Tail(temp_data), last_frame)
               /\ predictions' = Append(predictions, new_price)
               /\ ai_deltas' = Append(ai_deltas, ai_delta(pred_scaled, prev_price_scaled))
    /\ i' = i + 1
    /\ UNCHANGED <<FcEnv, is_loaded, data, fc_pc, fc_error, calls, steps,
                   scaled_means, current_batch, unfloored, fc_result, fc_log>>
    /\ UNCHANGED <<sg_vars, enf_vars, an_vars, bt_vars>>

\* start_price: the inverse transform of the last frame of the initial window
start_price ==
    inverse_transform(features(asset_key)[1], current_batch[Len(current_batch)][1])

\* start_price * 0.2
floor_price == RoundDiv(start_price * 2, 10)

predictions_original ==
    [k \in 1..Len(predictions) |->
        inverse_transform(features(asset_key)[1], predictions[k])]

\* after the loop, lines 248-259: inverse transform, floor, return
FinishForecast ==
    /\ fc_pc = "loop"
    /\ i = steps
    /\ unfloored' = predictions_original
    /\ fc_result' = [k \in 1..Len(predictions) |->
                        np_maximum(predictions_original[k], floor_price)]
    /\ fc_log' = Append(fc_log, [steps |-> steps, error |-> "none",
                                 result |-> [k \in 1..Len(predictions) |->
                                     np_maximum(predictions_original[k], floor_price)]])
    /\ fc_pc' = "returned"
    /\ UNCHANGED <<FcEnv, is_loaded, data, regressor, fc_error, calls, steps, i,
                   scaled_means, current_batch, temp_data, predictions, ai_deltas>>
    /\ UNCHANGED <<sg_vars, enf_vars, an_vars, bt_vars>>

FcNext ==
    \/ \E n \in 1..MaxSteps : CallForecast(n)
    \/ ForecastStep
    \/ FinishForecast

(***************************************************************************)
(* utils/signal_generator.py                                               *)
(*                                                                         *)
(* Units: prices in cents, DXY and VIX in hundredths, pct_change in        *)
(* hundredths of a percent, weights / scores / confidence in hundredths,   *)
(* factor scores in thousandths.  The weights 0.4, 0.3, 0.25, 0.2, 0.15    *)
(* are not exact doubles, but for every subset of the four factors the     *)
(* double sum exceeds 0.55 exactly when the sum of hundredths exceeds 55.  *)
(***************************************************************************)
\* float comparisons: every comparison with NaN is false
Gt(x, y) == ~IsNaN(x) /\ ~IsNaN(y) /\ x > y

Lt(x, y) == ~IsNaN(x) /\ ~IsNaN(y) /\ x < y

\* AssetPredictor.predict_week on the path recursive_forecast returned
predict_week(current_price, forecast) ==
    IF forecast = << >>
    THEN [current |-> current_price, predicted |-> current_price,
          pct_change |-> 0, error |-> TRUE]
    ELSE LET predicted_price == forecast[Len(forecast)]
         IN  [current |-> current_price, predicted |-> predicted_price,
              pct_change |-> IF IsNaN(predicted_price) THEN NaN
                             ELSE IF current_price = 0
                             THEN IF predicted_price > 0 THEN Inf
                                  ELSE IF predicted_price < 0 THEN 0 - Inf ELSE NaN
                             ELSE RoundDiv((predicted_price - current_price) * 10000,
                                           current_price),
              error |-> FALSE]

\* FedWatchFetcher.get_fed_signal for a dovish score (0..100)
get_fed_signal(dovish_score) ==
    IF dovish_score > 65
    THEN [dovish_score |-> dovish_score, stance |-> "dovish",
          signal_for_gold |-> "bullish", signal_for_stocks |-> "bullish"]
    ELSE IF dovish_score < 35
    THEN [dovish_score |-> dovish_score, stance |-> "hawkish",
          signal_for_gold |-> "bearish", signal_for_stocks |-> "bearish"]
    ELSE [dovish_score |-> dovish_score, stance |-> "neutral",
          signal_for_gold |-> "neutral", signal_for_stocks |-> "neutral"]

\* 'score': 0.7 if bullish else (0.3 if bearish else 0.5)
coarse_score(bullish, bearish) == IF bullish THEN 700 ELSE IF bearish THEN 300 ELSE 500

analyze_forecast(forecast) ==
    [bullish |-> Gt(forecast.pct_change, 200),
     bearish |-> Lt(forecast.pct_change, 0 - 200),
     score |-> IF IsNaN(forecast.pct_change) THEN NaN ELSE Abs(forecast.pct_change),
     weight |-> 40]

analyze_gold_macro(row, fed) ==
    LET bullish == (row.DXY < 10500 /\ row.VIX > 1500) \/ fed.signal_for_gold = "bullish"
        bearish == (row.DXY > 10800 /\ row.VIX < 1200) \/ fed.signal_for_gold = "bearish"
    IN  [bullish |-> bullish, bearish |-> bearish,
         score |-> coarse_score(bullish, bearish), weight |-> 30]

analyze_btc_macro(row, fed) ==
    LET bullish == row.DXY < 10400 \/ fed.dovish_score > 60
        bearish == row.DXY > 10700 \/ fed.dovish_score < 40
    IN  [bullish |-> bullish, bearish |-> bearish,
         score |-> coarse_score(bullish, bearish), weight |-> 25]

analyze_stock_macro(row, fed) ==
    LET bullish == row.VIX < 1800 /\ fed.signal_for_stocks = "bullish"
        bearish == row.VIX > 2500 \/ fed.signal_for_stocks = "bearish"
    IN  [bullish |-> bullish, bearish |-> bearish,
         score |-> coarse_score(bullish, bearish), weight |-> 25]

analyze_macro(key, row, fed) ==
    IF key = "gold" THEN analyze_gold_macro(row, fed)
    ELSE IF key = "btc" THEN analyze_btc_macro(row, fed)
    ELSE analyze_stock_macro(row, fed)

analyze_sentiment(trends, reddit) ==
    LET trends_bullish == trends.trend = "rising" /\ trends.current_interest > 60
        reddit_bullish == reddit = "bullish"
        trends_bearish == trends.trend = "falling" /\ trends.current_interest < 40
        reddit_bearish == reddit = "bearish"
        bullish == trends_bullish \/ reddit_bullish
        bearish == trends_bearish \/ reddit_bearish
    IN  [bullish |-> bullish, bearish |-> bearish,
         score |-> coarse_score(bullish, bearish), weight |-> 20]

\* price > ema_90 * 1.01, price < ema_90 * 0.99
analyze_technical(row) ==
    LET bullish == row.price * 100 > row.EMA_90 * 101
        bearish == row.price * 100 < row.EMA_90 * 99
    IN  [bullish |-> bullish, bearish |-> bearish,
         score |-> coarse_score(bullish, bearish), weight |-> 15]

FactorNames == <<"forecast", "macro", "sentiment", "technical">>

analyze_factors(key, row, forecast, fed, trends, reddit) ==
    [n \in {"forecast", "macro", "sentiment", "technical"} |->
        CASE n = "forecast" -> analyze_forecast(forecast)
          [] n = "macro" -> analyze_macro(key, row, fed)
          [] n = "sentiment" -> analyze_sentiment(trends, reddit)
          [] OTHER -> analyze_technical(row)]

\* the two accumulators of the aggregation loop
bullish_score(fs) ==
    SumSeq([k \in 1..4 |-> IF fs[FactorNames[k]].bullish
                           THEN fs[FactorNames[k]].weight ELSE 0])

bearish_score(fs) ==
    SumSeq([k \in 1..4 |-> IF fs[FactorNames[k]].bearish
                           THEN fs[FactorNames[k]].weight ELSE 0])

\* the decision with >= in place of > in the BUY test
decide_at_threshold(bull, bear) ==
    IF bull >= 55 THEN "BUY" ELSE IF bear > 55 THEN "SELL" ELSE "HOLD"

\* if bullish_score > 0.55 ... elif bearish_score > 0.55 ... else
decide(bull, bear) ==
    IF bull > 55 THEN "BUY" ELSE IF bear > 55 THEN "SELL" ELSE "HOLD"

\* the confidence without the min(..., 1.0) of the BUY and SELL branches
confidence_uncapped(signal, bull, bear) ==
    CASE signal = "BUY" -> bull
      [] signal = "SELL" -> bear
      [] OTHER -> 100 - Abs(bull - bear)

\* min(bullish_score, 1.0), min(bearish_score, 1.0),
\* 1 - abs(bullish_score - bearish_score)
confidence_of(signal, bull, bear) ==
    CASE signal = "BUY" -> IF bull < 100 THEN bull ELSE 100
      [] signal = "SELL" -> IF bear < 100 THEN bear ELSE 100
      [] OTHER -> 100 - Abs(bull - bear)

\* the stop loss with the long side's 0.95 in the SELL branch as well
stop_loss_long_only(signal, current_price) ==
    CASE signal = "BUY" -> RoundDiv(current_price * 95, 100)
      [] signal = "SELL" -> RoundDiv(current_price * 95, 100)
      [] OTHER -> current_price

\* current_price * 0.95 (BUY), current_price * 1.05 (SELL), current_price (HOLD)
stop_loss_of(signal, current_price) ==
    CASE signal = "BUY" -> RoundDiv(current_price * 95, 100)
      [] signal = "SELL" -> RoundDiv(current_price * 105, 100)
      [] OTHER -> current_price

calculate_signal(fs, current_price, forecast) ==
    LET bull == bullish_score(fs)
        bear == bearish_score(fs)
        signal == decide(bull, bear)
        confidence == confidence_of(signal, bull, bear)
        target_price == IF signal = "HOLD" THEN current_price ELSE forecast.predicted
        stop_loss == stop_loss_of(signal, current_price)
    IN  [signal |-> signal,
         confidence |-> confidence,
         factors |-> [n \in DOMAIN fs |-> [score |-> fs[n].score, weight |-> fs[n].weight]],
         bullish_score |-> bull,
         bearish_score |-> bear,
         entry_price |-> current_price,
         target_price |-> target_price,
         stop_loss |-> stop_loss,
         risk_reward |-> IF stop_loss # current_price
                         THEN IF IsNaN(target_price) THEN NaN
                              ELSE RoundDiv(Abs(target_price - current_price) * 1000,
                                            Abs(stop_loss - current_price))
                         ELSE 0]

\* readings the collaborators can supply: one value in every band the
\* thresholds of the analyses cut out (10500 and 1500 are also the defaults
\* of latest.get for a missing column)
DxyValues == {10300, 10450, 10500, 10750, 10900}

VixValues == {1100, 1500, 1600, 2000, 2600}

DovishScores == {30, 38, 60, 62, 70}

TrendsSignals ==
    [trend : {"rising", "falling", "stable"}, current_interest : {30, 70}]

RedditSignals == {"bullish", "bearish", "neutral"}

CurrentPrice == 10000

\* the price of the last row: an ordinary quote, and a row whose price is 0
CurrentPrices == {0, CurrentPrice}

\* EMA_90 of the last row; equal to the price when the column is missing
EmaValues == {9800, 10000, 10200}

\* the path recursive_forecast(7) hands to predict_week
WeekPaths == {<< >>, <<NaN>>, <<9000>>, <<9750>>, <<9900>>, <<10100>>, <<10250>>,
              <<11000>>, <<13000>>}

NoRecord == [none |-> TRUE]

\* SignalGenerator(key).generate_signal() on the readings of the moment
GenerateSignal ==
    /\ sg_pc = "idle"
    /\ \E key \in AssetKeys, price \in CurrentPrices, dxy \in DxyValues,
          vix \in VixValues, ema \in EmaValues,
          path \in WeekPaths, dovish \in DovishScores, trends \in TrendsSignals,
          reddit \in RedditSignals :
        LET row == [price |-> price, DXY |-> dxy, VIX |-> vix, EMA_90 |-> ema]
            fed == get_fed_signal(dovish)
            forecast == predict_week(row.price, path)
            fs == analyze_factors(key, row, forecast, fed, trends, reddit)
        IN  /\ sg_asset' = key
            /\ latest' = row
            /\ fed_signal' = fed
            /\ trends_signal' = trends
            /\ reddit_signal' = reddit
            /\ forecast_1w' = forecast
            /\ factors' = fs
            /\ signal_data' = calculate_signal(fs, row.price, forecast)
    /\ sg_pc' = "done"
    /\ UNCHANGED <<fc_vars, enf_vars, an_vars, bt_vars>>

\* generate_signal() when predict_week() raises (no try/except around it)
GenerateSignalRaises ==
    /\ sg_pc = "idle"
    /\ \E key \in AssetKeys : sg_asset' = key
    /\ sg_pc' = "raised"
    /\ UNCHANGED <<latest, forecast_1w, fed_signal, trends_signal, reddit_signal,
                   factors, signal_data>>
    /\ UNCHANGED <<fc_vars, enf_vars, an_vars, bt_vars>>

SgNext ==
    \/ GenerateSignal
    \/ GenerateSignalRaises

(***************************************************************************)
(* utils/correlation_enforcer.py                                           *)
(*                                                                         *)
(* Units: prices in cents, returns in 1/RET, betas in hundredths,          *)
(* correlations in thousandths, adjustment_strength in tenths.             *)
(***************************************************************************)
\* returns are multiples of 1/RET
RET == 10 * 1000

\* longest forecast path handed to enforce_predictions
MaxPathLen == 3
\* len(merged) < 50: the fewest joined rows a beta is computed from
MinMerged == 3
\* lookback_days (252)
LookbackDays == 4

reference_ticker == "SPY"

\* the tickers __init__ computes a relationship for (QQQ stands for the ten)
stock_tickers == {"QQQ"}

\* the tickers a caller may pass; BTC is never in stock_tickers
Tickers == {"SPY", "QQQ", "BTC"}

\* np.diff(p) / p[:-1], Series.pct_change().dropna()
pct_returns(p) ==
    IF Len(p) < 2 THEN << >>
    ELSE [k \in 1..(Len(p) - 1) |-> RoundDiv((p[k + 1] - p[k]) * RET, p[k])]

mean(xs) == RoundDiv(SumSeq(xs), Len(xs))

\* the sum of (x - mean x) * (y - mean y)
CoMoment(xs, ys) ==
    SumSeq([k \in 1..Len(xs) |-> (xs[k] - mean(xs)) * (ys[k] - mean(ys))])

\* np.cov(a, r)[0, 1]: sample covariance, ddof = 1
np_cov(xs, ys) == RoundDiv(CoMoment(xs, ys), Len(xs) - 1)

\* np.var(r): population variance, ddof = 0
np_var(xs) == RoundDiv(CoMoment(xs, xs), Len(xs))

\* the largest k with k * k <= n
ISqrt(n) == CHOOSE k \in 0..5000 : k * k <= n /\ (k + 1) * (k + 1) > n

\* Series.corr: Pearson; NaN when a series does not vary
corr(xs, ys) ==
    LET sx == ISqrt(CoMoment(xs, xs))
        sy == ISqrt(CoMoment(ys, ys))
    IN  IF sx * sy = 0 THEN NaN
        ELSE RoundDiv(RoundDiv(CoMoment(xs, ys) * 100, sx) * 10, sy)

\* the rows of the two files joined on Date: both end on the same date
merged(ref, asset) ==
    LET ref_tail == LastN(ref, LookbackDays)
        n == IF Len(ref_tail) < Len(asset) THEN Len(ref_tail) ELSE Len(asset)
    IN  [ref |-> LastN(ref_tail, n), asset |-> LastN(asset, n)]

\* beta = covariance / variance_ref if variance_ref > 0 else 1.0
beta_of(ref_ret, asset_ret) ==
    LET covariance == np_cov(asset_ret, ref_ret)
        variance_ref == np_var(ref_ret)
    IN  IF variance_ref > 0 THEN RoundDiv(covariance * 100, variance_ref) ELSE 100

\* the tickers _calculate_historical_relationships stores a relationship for
related(ref, hist) ==
    {t \in stock_tickers :
        /\ ref # << >>
        /\ hist[t] # << >>
        /\ Len(merged(ref, hist[t]).ref) >= MinMerged}

calculate_betas(ref, hist) ==
    [t \in related(ref, hist) |->
        LET m == merged(ref, hist[t])
            mt == [ref |-> LastN(m.ref, LookbackDays), asset |-> LastN(m.asset, LookbackDays)]
        IN  beta_of(pct_returns(mt.ref), pct_returns(mt.asset))]

calculate_correlations(ref, hist) ==
    [t \in related(ref, hist) |->
        LET m == merged(ref, hist[t])
            mt == [ref |-> LastN(m.ref, LookbackDays), asset |-> LastN(m.asset, LookbackDays)]
        IN  corr(pct_returns(mt.ref), pct_returns(mt.asset))]

\* numpy broadcasting of two 1-d arrays of lengths m and n: the length of
\* the result, or -1 for "operands could not be broadcast together"
broadcast_len(m, n) ==
    IF m = n THEN m ELSE IF m = 1 THEN n ELSE IF n = 1 THEN m ELSE 0 - 1

\* element k of a 1-d array broadcast to a longer one
at(xs, k) == IF Len(xs) = 1 THEN xs[1] ELSE xs[k]

\* the expected returns with the sign of beta lost
expected_returns_inverted(beta, ref_returns) ==
    [k \in 1..Len(ref_returns) |-> RoundDiv((0 - beta) * ref_returns[k], 100)]

\* expected_returns = beta * ref_returns
expected_returns(beta, ref_returns) ==
    [k \in 1..Len(ref_returns) |-> RoundDiv(beta * ref_returns[k], 100)]

\* the blend with the two weights exchanged
blended_return_swapped(strength, raw, expected) ==
    RoundDiv(strength * raw, 10) + RoundDiv((10 - strength) * expected, 10)

\* (1 - adjustment_strength) * raw + adjustment_strength * expected
blended_return(strength, raw, expected) ==
    RoundDiv((10 - strength) * raw, 10) + RoundDiv(strength * expected, 10)

\* next_price = adjusted_prices[-1] * (1 + ret)
compound(price, ret) == price + RoundDiv(price * ret, RET)

RECURSIVE reconstruct(_, _)
\* the loop over blended_returns, from start_price
reconstruct(start, rets) ==
    IF rets = << >> THEN <<start>>
    ELSE LET before == reconstruct(start, SubSeq(rets, 1, Len(rets) - 1))
         IN  Append(before, compound(before[Len(before)], rets[Len(rets)]))

\* lines 148-173 for one asset with a beta: the adjusted path, or the
\* exception numpy / the list index raises
adjust(raw_predictions, beta, ref_returns, strength) ==
    LET raw_returns == pct_returns(raw_predictions)
        expected == expected_returns(beta, ref_returns)
        n == broadcast_len(Len(raw_returns), Len(expected))
    IN  IF n < 0 THEN [error |-> "ValueError", path |-> << >>]
        ELSE IF raw_predictions = << >> THEN [error |-> "IndexError", path |-> << >>]
        ELSE [error |-> "none",
              path |-> reconstruct(raw_predictions[1],
                          [k \in 1..n |-> blended_return(strength, at(raw_returns, k),
                                                         at(expected, k))])]

\* the loop with self.betas.get(ticker, 1.0) in place of the membership test
enforce_one_default_beta(ticker, paths, bs, strength) ==
    IF ticker = reference_ticker
    THEN [error |-> "none", path |-> paths[ticker]]
    ELSE adjust(paths[ticker], IF ticker \in DOMAIN bs THEN bs[ticker] ELSE 100,
                pct_returns(paths[reference_ticker]), strength)

\* what the loop stores for one ticker of the input
enforce_one(ticker, paths, bs, strength) ==
    IF ticker = reference_ticker \/ ticker \notin DOMAIN bs
    THEN [error |-> "none", path |-> paths[ticker]]
    ELSE adjust(paths[ticker], bs[ticker], pct_returns(paths[reference_ticker]), strength)

\* historical price series the two files can hold
RefHists == {<< >>, <<1000, 1100, 1210, 1331>>, <<1000, 1100, 1045, 1150>>}

AssetHists == {<< >>, <<100, 110>>, <<2000, 2400, 2160, 2592>>, <<500, 480, 510, 490>>}

\* forecast prices of a non-anchor asset, positive; finer than the grid of
\* the returns; one step moves it by about 2%
PathPrices == {55000, 53900}

Paths == UNION {[1..n -> PathPrices] : n \in 0..MaxPathLen}

\* forecast prices of the anchor; one step moves it by about 1%
AnchorPrices == {59700, 59100}

AnchorPaths == UNION {[1..n -> AnchorPrices] : n \in 0..MaxPathLen}

Strengths == {0, 7, 10}

NoDict == [t \in {} |-> << >>]

\* the caller's dict with the adjusted lists written back into it
input_after_call_in_place(paths, adjusted) ==
    [t \in DOMAIN paths |-> IF t \in DOMAIN adjusted THEN adjusted[t] ELSE paths[t]]

\* the caller's dict after the call: the loop reads predictions_dict, builds
\* numpy arrays and new lists from it and stores them in a dict of its own
input_after_call(paths, adjusted) == paths

\* the body of enforce_predictions(paths, strength)
EnforceCall(keys, strength, anchor, others) ==
    LET paths == [t \in keys |-> IF t = reference_ticker THEN anchor ELSE others[t]]
        outcome == [t \in keys |-> enforce_one(t, paths, betas, strength)]
        failed == {t \in keys : outcome[t].error # "none"}
        adjusted == [t \in keys |-> outcome[t].path]
    IN  /\ predictions_dict' = paths
        /\ adjustment_strength' = strength
        /\ IF reference_ticker \notin keys \/ DOMAIN betas = {}
           THEN /\ enf_pc' = "returned"
                /\ enf_error' = "none"
                /\ adjusted_predictions' = paths
                /\ caller_dict' = paths
           ELSE IF failed # {}
           THEN /\ enf_pc' = "raised"
                /\ enf_error' = outcome[CHOOSE t \in failed : TRUE].error
                /\ adjusted_predictions' = NoDict
                /\ caller_dict' = paths
           ELSE /\ enf_pc' = "returned"
                /\ enf_error' = "none"
                /\ adjusted_predictions' = adjusted
                /\ caller_dict' = input_after_call(paths, adjusted)
        /\ enf_calls' = enf_calls + 1
        /\ UNCHANGED <<ref_hist, asset_hist, betas, correlations, metrics>>

\* enforce_predictions(paths, strength), the first call on a new enforcer
EnforcePredictions ==
    /\ enf_pc = "ready"
    /\ \E keys \in SUBSET Tickers, strength \in Strengths :
       \E anchor \in (IF reference_ticker \in keys THEN AnchorPaths ELSE {<< >>}),
          others \in [keys \ {reference_ticker} -> Paths] :
            EnforceCall(keys, strength, anchor, others)
    /\ UNCHANGED <<fc_vars, sg_vars, an_vars, bt_vars>>

EnfNext ==
    \/ EnforcePredictions

\* calls made on one enforcer
MaxEnfCalls == 3

\* Python's None
None == 0 - (2 * 1000 * 1000 * 1000)

\* ((prices[-1] - prices[0]) / prices[0]) * 100
change_pct_of(prices) ==
    RoundDiv((prices[Len(prices)] - prices[1]) * 10000, prices[1])

\* np.corrcoef(ref_returns, asset_returns)[0, 1]; nan for fewer than two
\* observations and for a series that does not vary
np_corrcoef(xs, ys) == IF Len(xs) = 0 THEN NaN ELSE corr(xs, ys)

\* what the loop of validate_enforcement does for one ticker: its entry of
\* metrics['assets'], or the exception numpy / the index raises
validate_one(ticker, adjusted, reference_change_pct) ==
    LET prices == adjusted[ticker]
        ref_returns == pct_returns(adjusted[reference_ticker])
        asset_returns == pct_returns(prices)
    IN  IF Len(ref_returns) # Len(asset_returns)
        THEN [error |-> "ValueError", entry |-> NoRecord]
        ELSE IF prices = << >>
        THEN [error |-> "IndexError", entry |-> NoRecord]
        ELSE LET change_pct == change_pct_of(prices)
             IN  [error |-> "none",
                  entry |->
                    [change_pct |-> change_pct,
                     prediction_correlation |-> np_corrcoef(ref_returns, asset_returns),
                     historical_correlation |->
                        IF ticker \in DOMAIN correlations THEN correlations[ticker]
                        ELSE None,
                     same_sign_as_reference |->
                        \/ reference_change_pct > 0 /\ change_pct > 0
                        \/ reference_change_pct < 0 /\ change_pct < 0,
                     beta |-> IF ticker \in DOMAIN betas THEN betas[ticker] ELSE None]]

\* validate_enforcement(adjusted): the metrics, or the exception
validate(adjusted) ==
    IF reference_ticker \notin DOMAIN adjusted
    THEN [error |-> "none", metrics |-> [valid |-> FALSE]]
    ELSE IF adjusted[reference_ticker] = << >>
    THEN [error |-> "IndexError", metrics |-> NoRecord]
    ELSE LET reference_change_pct == change_pct_of(adjusted[reference_ticker])
             others == DOMAIN adjusted \ {reference_ticker}
             outcome == [t \in others |-> validate_one(t, adjusted, reference_change_pct)]
             failed == {t \in others : outcome[t].error # "none"}
         IN  IF failed # {}
             THEN [error |-> outcome[CHOOSE t \in failed : TRUE].error,
                   metrics |-> NoRecord]
             ELSE [error |-> "none",
                   metrics |-> [valid |-> TRUE,
                                assets |-> [t \in others |-> outcome[t].entry],
                                reference_ticker |-> reference_ticker,
                                reference_change_pct |-> reference_change_pct]]

\* forecast paths handed to an enforcer that is called repeatedly: for the
\* anchor (the second one is a fall by a third in one step), for QQQ, and
\* for BTC, which has no history file and so no beta
FrameAnchorPaths == {<<59700, 59100, 59700>>, <<59700, 39100>>}

FramePaths == {<< >>, <<55000, 53900>>, <<55000, 53900, 55000>>}

FrameBtcPath == <<55000, 53900>>

\* the default strength 0.7 and full enforcement
FrameStrengths == {7, 10}

\* enforce_predictions(paths, strength) at any point of the enforcer's life
EnforceAgain ==
    /\ enf_calls < MaxEnfCalls
    /\ \E keys \in SUBSET Tickers, strength \in FrameStrengths :
       \E anchor \in (IF reference_ticker \in keys THEN FrameAnchorPaths ELSE {<< >>}),
          path \in FramePaths :
            EnforceCall(keys, strength, anchor,
                        [t \in keys \ {reference_ticker} |->
                            IF t \in stock_tickers THEN path ELSE FrameBtcPath])
    /\ UNCHANGED <<fc_vars, sg_vars, an_vars, bt_vars>>

\* validate_enforcement(adjusted) on the dict the last enforce_predictions
\* returned
ValidateEnforcement ==
    /\ enf_calls < MaxEnfCalls
    /\ enf_pc \in {"returned", "validated"}
    /\ LET v == validate(adjusted_predictions)
       IN  /\ metrics' = v.metrics
           /\ enf_error' = v.error
           /\ enf_pc' = IF v.error = "none" THEN "validated" ELSE "validate_raised"
    /\ caller_dict' = adjusted_predictions
    /\ enf_calls' = enf_calls + 1
    /\ UNCHANGED <<ref_hist, asset_hist, betas, correlations, predictions_dict,
                   adjustment_strength, adjusted_predictions>>
    /\ UNCHANGED <<fc_vars, sg_vars, an_vars, bt_vars>>

FrameNext ==
    \/ EnforceAgain
    \/ ValidateEnforcement

(***************************************************************************)
(* utils/forecast_analyzer.py                                              *)
(*                                                                         *)
(* Units: prices in thousandths (finer than the 2 decimals of round),      *)
(* total_change_pct in hundredths of a percent, returns in 1/RET.          *)
(***************************************************************************)
\* longest forecast path handed to analyze_forecast, the test path apart
MaxAnalyzeLen == 3

\* total_change_pct = ((final_price - current_price) / current_price) * 100
total_change_pct(current_price, final_price) ==
    RoundDiv((final_price - current_price) * 10000, current_price)

\* the trend with the thresholds at 20% in place of 2%
trend_of_wide(change) ==
    IF change > 2000 THEN "bullish" ELSE IF change < 0 - 2000 THEN "bearish" ELSE "neutral"

trend_of(change) ==
    IF change > 200 THEN "bullish" ELSE IF change < 0 - 200 THEN "bearish" ELSE "neutral"

strength_of(abs_change) ==
    IF abs_change > 1500 THEN "strong" ELSE IF abs_change > 500 THEN "moderate" ELSE "weak"

\* np.std(returns) > bound, bound in 1/RET, compared as variances:
\* n * sum(r^2) - sum(r)^2 > (bound * n)^2; np.std of no returns is NaN
std_above(returns, bound) ==
    LET n == Len(returns)
        sq == [k \in 1..n |-> returns[k] * returns[k]]
    IN  n > 0 /\ n * SumSeq(sq) - SumSeq(returns) * SumSeq(returns) > (bound * n) * (bound * n)

\* volatility_score > 0.03: high; > 0.015: medium; else low
volatility_of(forecast_prices) ==
    LET returns == pct_returns(forecast_prices)
    IN  IF std_above(returns, 300) THEN "high"
        ELSE IF std_above(returns, 150) THEN "medium"
        ELSE "low"

\* round(x, 2)
round2(x) == RoundDiv(x, 10) * 10

RECURSIVE sorted(_)
\* sorted(list(set(...))): the elements of a set in increasing order
sorted(S) ==
    IF S = {} THEN << >>
    ELSE LET m == CHOOSE x \in S : \A y \in S : x <= y
         IN  <<m>> \o sorted(S \ {m})

\* sorted(list(set([round(x, 2) for x in key_levels])))
key_levels_of(current_price, final_price) ==
    sorted({round2(current_price), round2(RoundDiv(current_price * 105, 100)),
            round2(RoundDiv(current_price * 95, 100)), round2(final_price)})

\* the risk assessment with >= in place of > on the change
risk_level_inclusive(volatility, abs_change) ==
    IF volatility = "high" \/ abs_change >= 2000 THEN "high"
    ELSE IF volatility = "medium" \/ abs_change >= 1000 THEN "medium"
    ELSE "low"

\* if volatility == 'high' or abs_change > 20 ... elif ... else
risk_level_of(volatility, abs_change) ==
    IF volatility = "high" \/ abs_change > 2000 THEN "high"
    ELSE IF volatility = "medium" \/ abs_change > 1000 THEN "medium"
    ELSE "low"

\* which of the three recommendation texts is generated
recommendation_of(trend, strength) ==
    IF trend = "bullish" /\ strength \in {"strong", "moderate"}
    THEN "Consider accumulating on dips"
    ELSE IF trend = "bearish" /\ strength \in {"strong", "moderate"}
    THEN "Consider taking profits or reducing exposure"
    ELSE "Hold current positions"

analyze_forecast_of(current_price, forecast_prices) ==
    LET final_price == forecast_prices[Len(forecast_prices)]
        change == total_change_pct(current_price, final_price)
        volatility == volatility_of(forecast_prices)
        trend == trend_of(change)
        strength == strength_of(Abs(change))
    IN  [trend |-> trend,
         strength |-> strength,
         volatility |-> volatility,
         key_levels |-> key_levels_of(current_price, final_price),
         recommendation |-> recommendation_of(trend, strength),
         risk_level |-> risk_level_of(volatility, Abs(change)),
         change_pct |-> change,
         final_price |-> final_price]

\* the path of "Test 1: Bullish Forecast", for current_price = 100
TestPath == <<102000, 105000, 108000, 112000, 115000, 118000, 120000>>

AnalyzeCurrents == {100000, 100004}

AnalyzePrices == {79000, 96000, 100003, 105000, 111000, 121000}

AnalyzePaths ==
    {TestPath} \cup UNION {[1..n -> AnalyzePrices] : n \in 0..MaxAnalyzeLen}

\* analyze_forecast(current_price, forecast_prices, name) on a path with a
\* last element
AnalyzeForecast ==
    /\ an_pc = "idle"
    /\ \E current_price \in AnalyzeCurrents, forecast_prices \in AnalyzePaths :
        /\ forecast_prices # << >>
        /\ an_current' = current_price
        /\ an_forecast' = forecast_prices
        /\ insights' = analyze_forecast_of(current_price, forecast_prices)
    /\ an_pc' = "done"
    /\ UNCHANGED <<fc_vars, sg_vars, enf_vars, bt_vars>>

\* analyze_forecast on an empty path: forecast_array[-1] raises IndexError
AnalyzeForecastRaises ==
    /\ an_pc = "idle"
    /\ \E current_price \in AnalyzeCurrents :
        /\ an_current' = current_price
        /\ an_forecast' = << >>
    /\ an_pc' = "raised"
    /\ UNCHANGED insights
    /\ UNCHANGED <<fc_vars, sg_vars, enf_vars, bt_vars>>

AnNext ==
    \/ AnalyzeForecast
    \/ AnalyzeForecastRaises

(***************************************************************************)
(* The batch functions of utils/predictor.py and utils/signal_generator.py *)
(* and the per-asset wrappers they call.  For each asset of the list the   *)
(* state of its files is read when its turn comes.                         *)
(***************************************************************************)
\* longest list of asset keys handed to a batch function
MaxBatch == 3

BatchOps == {"batch_predict_tomorrow", "batch_predict_week",
             "batch_multi_range_forecast", "batch_generate_signals"}

\* keys a caller may pass: configured assets and one that is not in ASSETS
BatchKeys == {"gold", "btc", "xyz"}

\* FORECAST_RANGES, its first two entries
ForecastRanges == [label \in {"1 Day", "1 Week"} |-> IF label = "1 Day" THEN 1 ELSE 5]

\* what an asset's files look like when its turn comes
BatchEnvs ==
    {[TF |-> TRUE, model |-> TRUE, scaler |-> TRUE, broken |-> FALSE, data |-> TRUE,
      predicted |-> 10250],
     [TF |-> TRUE, model |-> TRUE, scaler |-> TRUE, broken |-> FALSE, data |-> TRUE,
      predicted |-> 10000],
     [TF |-> FALSE, model |-> TRUE, scaler |-> TRUE, broken |-> FALSE, data |-> TRUE,
      predicted |-> 10250],
     [TF |-> TRUE, model |-> FALSE, scaler |-> TRUE, broken |-> FALSE, data |-> TRUE,
      predicted |-> 10250],
     [TF |-> TRUE, model |-> TRUE, scaler |-> TRUE, broken |-> TRUE, data |-> TRUE,
      predicted |-> 10250],
     [TF |-> TRUE, model |-> TRUE, scaler |-> TRUE, broken |-> FALSE, data |-> FALSE,
      predicted |-> 10250]}

\* recursive_forecast(n) on a fresh AssetPredictor whose data file loads:
\* [] without TensorFlow or when loading fails, FileNotFoundError for a
\* missing artifact, else a path of n prices
forecast_outcome(e, n) ==
    IF ~e.TF THEN [kind |-> "empty", path |-> << >>]
    ELSE IF ~e.model \/ ~e.scaler THEN [kind |-> "FileNotFoundError", path |-> << >>]
    ELSE IF e.broken THEN [kind |-> "empty", path |-> << >>]
    ELSE [kind |-> "path", path |-> [k \in 1..n |-> e.predicted]]

\* AssetPredictor.predict_tomorrow on the path recursive_forecast(1) returned
predict_tomorrow(current_price, forecast) ==
    IF forecast = << >>
    THEN [current |-> current_price, predicted |-> current_price,
          pct_change |-> 0, error |-> TRUE]
    ELSE LET predicted_price == forecast[1]
         IN  [current |-> current_price, predicted |-> predicted_price,
              pct_change |-> IF IsNaN(predicted_price) THEN NaN
                             ELSE RoundDiv((predicted_price - current_price) * 10000,
                                           current_price),
              error |-> FALSE]

\* results[label] of get_multi_range_forecast: {'price': ..., 'confidence': ...}
multi_range_entry(key, label, current_price, forecast) ==
    [price |-> IF forecast # << >> THEN forecast[Len(forecast)] ELSE current_price,
     confidence |-> <<key, label>>]

\* the per-asset call of a batch function: the value it returns or the
\* exception it raises, and what recursive_forecast did on the way
per_asset(op, key, e) ==
    LET raise(err, eng) == [raised |-> TRUE, error |-> err, engine |-> eng, value |-> NoRecord]
        value(v, eng) == [raised |-> FALSE, error |-> "none", engine |-> eng, value |-> v]
        current_price == CurrentPrice
        steps_of == IF op = "batch_predict_tomorrow" THEN 1 ELSE 7
        fc == forecast_outcome(e, steps_of)
    IN  IF key \notin AssetKeys THEN raise("ValueError", "none")
        ELSE IF ~e.data THEN raise("FileNotFoundError", "none")
        ELSE IF op = "batch_multi_range_forecast"
        THEN LET out == [label \in DOMAIN ForecastRanges |->
                            forecast_outcome(e, ForecastRanges[label])]
             IN  IF out["1 Day"].kind \notin {"path", "empty"}
                 THEN raise(out["1 Day"].kind, "raised")
                 ELSE value([Current |-> current_price,
                             ranges |-> [label \in DOMAIN ForecastRanges |->
                                 multi_range_entry(key, label, current_price,
                                                   out[label].path)]],
                            out["1 Day"].kind)
        ELSE IF fc.kind \notin {"path", "empty"} THEN raise(fc.kind, "raised")
        ELSE IF op = "batch_predict_tomorrow"
        THEN value(predict_tomorrow(current_price, fc.path), fc.kind)
        ELSE IF op = "batch_predict_week"
        THEN value(predict_week(current_price, fc.path), fc.kind)
        ELSE LET row == [price |-> current_price, DXY |-> 10500, VIX |-> 1500,
                         EMA_90 |-> current_price]
                 forecast == predict_week(current_price, fc.path)
                 fs == analyze_factors(key, row, forecast, get_fed_signal(60),
                                       [trend |-> "stable", current_interest |-> 30],
                                       "neutral")
             IN  value(calculate_signal(fs, current_price, forecast), fc.kind)

\* the loop body without its try / except
batch_entry_uncaught(op, key, e) ==
    LET out == per_asset(op, key, e)
    IN  [aborted |-> out.raised, is_error |-> FALSE, error |-> out.error,
         value |-> out.value]

\* try: results[key] = ...  except Exception as e: results[key] = {'error': str(e)}
batch_entry(op, key, e) ==
    LET out == per_asset(op, key, e)
    IN  [aborted |-> FALSE, is_error |-> out.raised, error |-> out.error,
         value |-> out.value]

NoResults == [k \in {} |-> NoRecord]

\* a batch function is called: results = {}
StartBatch ==
    /\ bt_pc = "idle"
    /\ \E op \in BatchOps, n \in 0..MaxBatch :
       \E keys \in [1..n -> BatchKeys] :
        /\ bt_op' = op
        /\ asset_keys' = keys
    /\ bt_pc' = "loop"
    /\ bt_k' = 0
    /\ engine' = NoResults
    /\ results' = NoResults
    /\ UNCHANGED <<fc_vars, sg_vars, enf_vars, an_vars>>

\* one iteration of "for key in asset_keys"
BatchStep ==
    /\ bt_pc = "loop"
    /\ bt_k < Len(asset_keys)
    /\ \E e \in BatchEnvs :
        LET key == asset_keys[bt_k + 1]
            entry == batch_entry(bt_op, key, e)
        IN  IF entry.aborted
            THEN /\ bt_pc' = "raised"
                 /\ UNCHANGED <<engine, results>>
            ELSE /\ bt_pc' = "loop"
                 /\ engine' = [k \in DOMAIN engine \cup {key} |->
                                  IF k = key THEN per_asset(bt_op, key, e).engine
                                  ELSE engine[k]]
                 /\ results' = [k \in DOMAIN results \cup {key} |->
                                  IF k = key THEN entry ELSE results[k]]
    /\ bt_k' = bt_k + 1
    /\ UNCHANGED <<bt_op, asset_keys>>
    /\ UNCHANGED <<fc_vars, sg_vars, enf_vars, an_vars>>

\* return results
BatchReturn ==
    /\ bt_pc = "loop"
    /\ bt_k = Len(asset_keys)
    /\ bt_pc' = "done"
    /\ UNCHANGED <<bt_op, asset_keys, bt_k, engine, results>>
    /\ UNCHANGED <<fc_vars, sg_vars, enf_vars, an_vars>>

BtNext ==
    \/ StartBatch
    \/ BatchStep
    \/ BatchReturn

(***************************************************************************)
(* Specifications                                                          *)
(***************************************************************************)
\* AssetPredictor(asset_key) constructed over some file system and data file;
\* no signal generator or enforcement layer in use
InitForecast ==
    /\ TF_AVAILABLE \in BOOLEAN
    /\ model_exists \in BOOLEAN
    /\ scaler_exists \in BOOLEAN
    /\ load_raises \in BOOLEAN
    /\ data_exists \in BOOLEAN
    /\ asset_key \in AssetKeys
    /\ csv \in Series(asset_key)
    /\ regressor = << >>
    /\ is_loaded = FALSE
    /\ data = << >>
    /\ fc_pc = "idle"
    /\ fc_error = "none"
    /\ calls = 0
    /\ steps = 0
    /\ i = 0
    /\ scaled_means = << >>
    /\ current_batch = << >>
    /\ temp_data = << >>
    /\ predictions = << >>
    /\ ai_deltas = << >>
    /\ unfloored = << >>
    /\ fc_result = << >>
    /\ fc_log = << >>
    /\ sg_pc = "idle"
    /\ sg_asset = "gold"
    /\ latest = NoRecord
    /\ forecast_1w = NoRecord
    /\ fed_signal = NoRecord
    /\ trends_signal = NoRecord
    /\ reddit_signal = "none"
    /\ factors = NoRecord
    /\ signal_data = NoRecord
    /\ ref_hist = << >>
    /\ asset_hist = [t \in stock_tickers |-> << >>]
    /\ betas = NoDict
    /\ correlations = NoDict
    /\ enf_pc = "ready"
    /\ enf_error = "none"
    /\ predictions_dict = NoDict
    /\ adjustment_strength = 0
    /\ adjusted_predictions = NoDict
    /\ caller_dict = NoDict
    /\ metrics = NoRecord
    /\ enf_calls = 0
    /\ an_pc = "idle"
    /\ an_current = 0
    /\ an_forecast = << >>
    /\ insights = NoRecord
    /\ bt_pc = "idle"
    /\ bt_op = "none"
    /\ asset_keys = << >>
    /\ bt_k = 0
    /\ engine = NoResults
    /\ results = NoResults

\* SignalGenerator constructed; no forecast call or enforcement in progress
InitSignal ==
    /\ TF_AVAILABLE = FALSE
    /\ model_exists = FALSE
    /\ scaler_exists = FALSE
    /\ load_raises = FALSE
    /\ data_exists = FALSE
    /\ asset_key = "gold"
    /\ csv = << >>
    /\ regressor = << >>
    /\ is_loaded = FALSE
    /\ data = << >>
    /\ fc_pc = "idle"
    /\ fc_error = "none"
    /\ calls = 0
    /\ steps = 0
    /\ i = 0
    /\ scaled_means = << >>
    /\ current_batch = << >>
    /\ temp_data = << >>
    /\ predictions = << >>
    /\ ai_deltas = << >>
    /\ unfloored = << >>
    /\ fc_result = << >>
    /\ fc_log = << >>
    /\ sg_pc = "idle"
    /\ sg_asset = "gold"
    /\ latest = NoRecord
    /\ forecast_1w = NoRecord
    /\ fed_signal = NoRecord
    /\ trends_signal = NoRecord
    /\ reddit_signal = "none"
    /\ factors = NoRecord
    /\ signal_data = NoRecord
    /\ ref_hist = << >>
    /\ asset_hist = [t \in stock_tickers |-> << >>]
    /\ betas = NoDict
    /\ correlations = NoDict
    /\ enf_pc = "ready"
    /\ enf_error = "none"
    /\ predictions_dict = NoDict
    /\ adjustment_strength = 0
    /\ adjusted_predictions = NoDict
    /\ caller_dict = NoDict
    /\ metrics = NoRecord
    /\ enf_calls = 0
    /\ an_pc = "idle"
    /\ an_current = 0
    /\ an_forecast = << >>
    /\ insights = NoRecord
    /\ bt_pc = "idle"
    /\ bt_op = "none"
    /\ asset_keys = << >>
    /\ bt_k = 0
    /\ engine = NoResults
    /\ results = NoResults

\* CorrelationEnforcer() constructed over some history files
InitEnforce ==
    /\ TF_AVAILABLE = FALSE
    /\ model_exists = FALSE
    /\ scaler_exists = FALSE
    /\ load_raises = FALSE
    /\ data_exists = FALSE
    /\ asset_key = "gold"
    /\ csv = << >>
    /\ regressor = << >>
    /\ is_loaded = FALSE
    /\ data = << >>
    /\ fc_pc = "idle"
    /\ fc_error = "none"
    /\ calls = 0
    /\ steps = 0
    /\ i = 0
    /\ scaled_means = << >>
    /\ current_batch = << >>
    /\ temp_data = << >>
    /\ predictions = << >>
    /\ ai_deltas = << >>
    /\ unfloored = << >>
    /\ fc_result = << >>
    /\ fc_log = << >>
    /\ sg_pc = "idle"
    /\ sg_asset = "gold"
    /\ latest = NoRecord
    /\ forecast_1w = NoRecord
    /\ fed_signal = NoRecord
    /\ trends_signal = NoRecord
    /\ reddit_signal = "none"
    /\ factors = NoRecord
    /\ signal_data = NoRecord
    /\ ref_hist \in RefHists
    /\ asset_hist \in [stock_tickers -> AssetHists]
    /\ betas = calculate_betas(ref_hist, asset_hist)
    /\ correlations = calculate_correlations(ref_hist, asset_hist)
    /\ enf_pc = "ready"
    /\ enf_error = "none"
    /\ predictions_dict = NoDict
    /\ adjustment_strength = 0
    /\ adjusted_predictions = NoDict
    /\ caller_dict = NoDict
    /\ metrics = NoRecord
    /\ enf_calls = 0
    /\ an_pc = "idle"
    /\ an_current = 0
    /\ an_forecast = << >>
    /\ insights = NoRecord
    /\ bt_pc = "idle"
    /\ bt_op = "none"
    /\ asset_keys = << >>
    /\ bt_k = 0
    /\ engine = NoResults
    /\ results = NoResults

SpecForecast == InitForecast /\ [][FcNext]_vars

SpecSignal == InitSignal /\ [][SgNext]_vars

SpecEnforce == InitEnforce /\ [][EnfNext]_vars

\* one enforcer, constructed once and then called repeatedly
SpecFrame == InitEnforce /\ [][FrameNext]_vars

\* ForecastAnalyzer() constructed; nothing else in use
InitAnalyze ==
    /\ TF_AVAILABLE = FALSE
    /\ model_exists = FALSE
    /\ scaler_exists = FALSE
    /\ load_raises = FALSE
    /\ data_exists = FALSE
    /\ asset_key = "gold"
    /\ csv = << >>
    /\ regressor = << >>
    /\ is_loaded = FALSE
    /\ data = << >>
    /\ fc_pc = "idle"
    /\ fc_error = "none"
    /\ calls = 0
    /\ steps = 0
    /\ i = 0
    /\ scaled_means = << >>
    /\ current_batch = << >>
    /\ temp_data = << >>
    /\ predictions = << >>
    /\ ai_deltas = << >>
    /\ unfloored = << >>
    /\ fc_result = << >>
    /\ fc_log = << >>
    /\ sg_pc = "idle"
    /\ sg_asset = "gold"
    /\ latest = NoRecord
    /\ forecast_1w = NoRecord
    /\ fed_signal = NoRecord
    /\ trends_signal = NoRecord
    /\ reddit_signal = "none"
    /\ factors = NoRecord
    /\ signal_data = NoRecord
    /\ ref_hist = << >>
    /\ asset_hist = [t \in stock_tickers |-> << >>]
    /\ betas = NoDict
    /\ correlations = NoDict
    /\ enf_pc = "ready"
    /\ enf_error = "none"
    /\ predictions_dict = NoDict
    /\ adjustment_strength = 0
    /\ adjusted_predictions = NoDict
    /\ caller_dict = NoDict
    /\ metrics = NoRecord
    /\ enf_calls = 0
    /\ an_pc = "idle"
    /\ an_current = 0
    /\ an_forecast = << >>
    /\ insights = NoRecord
    /\ bt_pc = "idle"
    /\ bt_op = "none"
    /\ asset_keys = << >>
    /\ bt_k = 0
    /\ engine = NoResults
    /\ results = NoResults

SpecAnalyze == InitAnalyze /\ [][AnNext]_vars

\* the module-level batch functions, before a call
InitBatch ==
    /\ TF_AVAILABLE = FALSE
    /\ model_exists = FALSE
    /\ scaler_exists = FALSE
    /\ load_raises = FALSE
    /\ data_exists = FALSE
    /\ asset_key = "gold"
    /\ csv = << >>
    /\ regressor = << >>
    /\ is_loaded = FALSE
    /\ data = << >>
    /\ fc_pc = "idle"
    /\ fc_error = "none"
    /\ calls = 0
    /\ steps = 0
    /\ i = 0
    /\ scaled_means = << >>
    /\ current_batch = << >>
    /\ temp_data = << >>
    /\ predictions = << >>
    /\ ai_deltas = << >>
    /\ unfloored = << >>
    /\ fc_result = << >>
    /\ fc_log = << >>
    /\ sg_pc = "idle"
    /\ sg_asset = "gold"
    /\ latest = NoRecord
    /\ forecast_1w = NoRecord
    /\ fed_signal = NoRecord
    /\ trends_signal = NoRecord
    /\ reddit_signal = "none"
    /\ factors = NoRecord
    /\ signal_data = NoRecord
    /\ ref_hist = << >>
    /\ asset_hist = [t \in stock_tickers |-> << >>]
    /\ betas = NoDict
    /\ correlations = NoDict
    /\ enf_pc = "ready"
    /\ enf_error = "none"
    /\ predictions_dict = NoDict
    /\ adjustment_strength = 0
    /\ adjusted_predictions = NoDict
    /\ caller_dict = NoDict
    /\ metrics = NoRecord
    /\ enf_calls = 0
    /\ an_pc = "idle"
    /\ an_current = 0
    /\ an_forecast = << >>
    /\ insights = NoRecord
    /\ bt_pc = "idle"
    /\ bt_op = "none"
    /\ asset_keys = << >>
    /\ bt_k = 0
    /\ engine = NoResults
    /\ results = NoResults

SpecBatch == InitBatch /\ [][BtNext]_vars

\* data files for the repeated calls: one row short of the window, and two
\* that are one row longer than it
RepeatSeries(key) ==
    LET n == sequence_length(key)
    IN  {[k \in 1..(n - 1) |-> IF k % 2 = 1 THEN RowLow(key) ELSE RowMid(key)],
         [k \in 1..(n + 1) |-> IF k % 2 = 1 THEN RowLow(key) ELSE RowMid(key)],
         [k \in 1..(n + 1) |-> RowMid(key)]}

\* AssetPredictor(asset_key) constructed, about to be called repeatedly
InitRepeat ==
    /\ TF_AVAILABLE \in BOOLEAN
    /\ model_exists \in BOOLEAN
    /\ scaler_exists \in BOOLEAN
    /\ load_raises \in BOOLEAN
    /\ data_exists \in BOOLEAN
    /\ asset_key \in AssetKeys
    /\ csv \in RepeatSeries(asset_key)
    /\ regressor = << >>
    /\ is_loaded = FALSE
    /\ data = << >>
    /\ fc_pc = "idle"
    /\ fc_error = "none"
    /\ calls = 0
    /\ steps = 0
    /\ i = 0
    /\ scaled_means = << >>
    /\ current_batch = << >>
    /\ temp_data = << >>
    /\ predictions = << >>
    /\ ai_deltas = << >>
    /\ unfloored = << >>
    /\ fc_result = << >>
    /\ fc_log = << >>
    /\ sg_pc = "idle"
    /\ sg_asset = "gold"
    /\ latest = NoRecord
    /\ forecast_1w = NoRecord
    /\ fed_signal = NoRecord
    /\ trends_signal = NoRecord
    /\ reddit_signal = "none"
    /\ factors = NoRecord
    /\ signal_data = NoRecord
    /\ ref_hist = << >>
    /\ asset_hist = [t \in stock_tickers |-> << >>]
    /\ betas = NoDict
    /\ correlations = NoDict
    /\ enf_pc = "ready"
    /\ enf_error = "none"
    /\ predictions_dict = NoDict
    /\ adjustment_strength = 0
    /\ adjusted_predictions = NoDict
    /\ caller_dict = NoDict
    /\ metrics = NoRecord
    /\ enf_calls = 0
    /\ an_pc = "idle"
    /\ an_current = 0
    /\ an_forecast = << >>
    /\ insights = NoRecord
    /\ bt_pc = "idle"
    /\ bt_op = "none"
    /\ asset_keys = << >>
    /\ bt_k = 0
    /\ engine = NoResults
    /\ results = NoResults

SpecRepeat == InitRepeat /\ [][FcNext]_vars

(***************************************************************************)
(* Claims about the recursive forecast engine                              *)
(***************************************************************************)
\* the call in progress has returned a non-empty path
ReturnedPath == fc_pc = "returned" /\ fc_result # << >>

\* the regressor or the normalizer is unavailable
Unavailable == ~TF_AVAILABLE \/ ~model_exists \/ ~scaler_exists \/ load_raises

\* C1: every price of a returned non-empty path is a number that is at least
\* 0.2 * start_price, whatever the regressor answered during the run.
C1_FloorInvariant ==
    ReturnedPath =>
        \A k \in 1..Len(fc_result) :
            ~IsNaN(fc_result[k]) /\ fc_result[k] >= floor_price

\* C2: when the regressor or the normalizer is unavailable, a call of
\* recursive_forecast that has ended returned the empty path; it did not raise.
C2_UnavailableReturnsEmpty ==
    (calls > 0 /\ Unavailable /\ fc_pc \in {"returned", "raised"}) =>
        (fc_pc = "returned" /\ fc_result = << >>)

\* C3: the delta multiplied by decay and trust lies in [-0.008, +0.008] at
\* every step, for any regressor output.
C3_ClipInvariant ==
    \A k \in 1..Len(ai_deltas) :
        /\ ~IsNaN(ai_deltas[k])
        /\ 0 - ClipBound <= ai_deltas[k]
        /\ ai_deltas[k] <= ClipBound

\* C4: the k-th recorded normalized price (k counted from 0) differs from the
\* normalized start price by at most 0.008 * (k + 1).
C4_DriftBound ==
    \A k \in 1..Len(predictions) :
        /\ ~IsNaN(predictions[k])
        /\ Abs(predictions[k] - current_batch[Len(current_batch)][1]) <= ClipBound * k

\* C5: a forecast on a series no longer than sequence_length fails: the call
\* neither enters the forecast loop nor returns prices.
C5_InsufficientHistoryFails ==
    (data # << >> /\ Len(data[1]) <= sequence_length(asset_key)) =>
        (fc_pc # "loop" /\ ~ReturnedPath)

(***************************************************************************)
(* Claims about the signal generator                                       *)
(***************************************************************************)
\* the sum of the weights of the factors flagged bullish, resp. bearish
BullishWeight ==
    LET w(n) == IF factors[n].bullish THEN factors[n].weight ELSE 0
    IN  w("forecast") + w("macro") + w("sentiment") + w("technical")

BearishWeight ==
    LET w(n) == IF factors[n].bearish THEN factors[n].weight ELSE 0
    IN  w("forecast") + w("macro") + w("sentiment") + w("technical")

\* C6: bullish_score > 0.55 with bearish_score <= 0.55 gives BUY, the
\* symmetric case gives SELL, and neither score above 0.55 gives HOLD.
C6_ThresholdConsistency ==
    sg_pc = "done" =>
        /\ (BullishWeight > 55 /\ BearishWeight <= 55) => signal_data.signal = "BUY"
        /\ (BearishWeight > 55 /\ BullishWeight <= 55) => signal_data.signal = "SELL"
        /\ (BullishWeight <= 55 /\ BearishWeight <= 55) => signal_data.signal = "HOLD"

\* a SELL decided by the bearish weights alone
C6_Witness ==
    /\ sg_pc = "done"
    /\ BearishWeight > 55
    /\ BullishWeight <= 55
    /\ BullishWeight > 0
    /\ signal_data.signal = "SELL"

\* C7: every configuration that is neither the BUY case nor the SELL case of
\* C6, the one with both scores above 0.55 included, gives HOLD.
C7_OtherwiseHold ==
    sg_pc = "done" =>
        ((~(BullishWeight > 55 /\ BearishWeight <= 55)
          /\ ~(BearishWeight > 55 /\ BullishWeight <= 55))
            => signal_data.signal = "HOLD")

(***************************************************************************)
(* Claims about the correlation enforcement layer                          *)
(***************************************************************************)
\* the non-anchor assets of the input that have a stored beta
WithBeta == {t \in DOMAIN predictions_dict : t # reference_ticker /\ t \in DOMAIN betas}

\* the call went through the adjustment loop and returned
Enforced ==
    /\ enf_pc = "returned"
    /\ reference_ticker \in DOMAIN predictions_dict
    /\ DOMAIN betas # {}

\* two paths of one length whose prices agree up to the rounding of the
\* returns and of the compounding, one unit of each per step
SamePath(a, b) ==
    /\ Len(a) = Len(b)
    /\ \A k \in 1..Len(a) :
          Abs(a[k] - b[k]) * RET <= (Abs(b[k]) + RET) * MaxPathLen

\* C8: with adjustment_strength = 0 every asset's returned path equals its
\* input path: the same length and, up to rounding, the same price at every
\* index.
C8_StrengthZeroUnchanged ==
    (enf_pc = "returned" /\ adjustment_strength = 0) =>
        /\ DOMAIN adjusted_predictions = DOMAIN predictions_dict
        /\ \A t \in DOMAIN predictions_dict :
              SamePath(adjusted_predictions[t], predictions_dict[t])

C10_PassThrough ==
    /\ enf_pc = "returned" =>
          /\ DOMAIN adjusted_predictions = DOMAIN predictions_dict
          /\ \A t \in DOMAIN predictions_dict :
                (t = reference_ticker \/ t \notin DOMAIN betas)
                    => adjusted_predictions[t] = predictions_dict[t]
    /\ enf_pc = "raised" => WithBeta # {}

\* an asset without a beta passed through a call that adjusted another asset
C10_Witness ==
    /\ Enforced
    /\ adjustment_strength = 7
    /\ "BTC" \in DOMAIN predictions_dict
    /\ Len(predictions_dict["BTC"]) = 3
    /\ "QQQ" \in WithBeta
    /\ adjusted_predictions["QQQ"] # predictions_dict["QQQ"]
    /\ adjusted_predictions["BTC"] = predictions_dict["BTC"]
    /\ adjusted_predictions[reference_ticker] = predictions_dict[reference_ticker]

\* the input path of t has the anchor's length and at least one step
SameSteps(t) ==
    /\ Len(predictions_dict[t]) = Len(predictions_dict[reference_ticker])
    /\ Len(predictions_dict[t]) >= 2

\* the anchor's return is above the raw return of t at every step
AnchorAbove(t) ==
    LET ref_returns == pct_returns(predictions_dict[reference_ticker])
        raw_returns == pct_returns(predictions_dict[t])
    IN  \A k \in 1..Len(raw_returns) : ref_returns[k] > raw_returns[k]

\* beta * the anchor's return is above the raw return of t at every step
ExpectedAbove(t) ==
    LET ref_returns == pct_returns(predictions_dict[reference_ticker])
        raw_returns == pct_returns(predictions_dict[t])
    IN  \A k \in 1..Len(raw_returns) :
            RoundDiv(betas[t] * ref_returns[k], 100) > raw_returns[k]

\* the adjusted path of t ends above its raw path: both start at the same
\* price, so its total return over the horizon is the greater one
EndsHigher(t) ==
    LET adj == adjusted_predictions[t]
        raw == predictions_dict[t]
    IN  Len(adj) = Len(raw) /\ adj[Len(adj)] > raw[Len(raw)]

\* C11 as stated: for beta > 0 and 0 < strength <= 1, an anchor whose return
\* is above the asset's raw return at every step gives an adjusted path with
\* a strictly greater total return than the raw path.
C11_AnchorAboveRaisesTotal ==
    (Enforced /\ adjustment_strength > 0) =>
        \A t \in WithBeta :
            (betas[t] > 0 /\ SameSteps(t) /\ AnchorAbove(t)) => EndsHigher(t)

\* C11 amended: for beta > 0 and 0 < strength <= 1, when beta * the anchor's
\* return is above the asset's raw return at every step (for beta = 1.0: the
\* anchor's return itself), the adjusted path has a strictly greater total
\* return than the raw path.
C11_ExpectedAboveRaisesTotal ==
    (Enforced /\ adjustment_strength > 0) =>
        \A t \in WithBeta :
            (betas[t] > 0 /\ SameSteps(t) /\ ExpectedAbove(t)) => EndsHigher(t)

\* beta 1.0, strength 0.7, the anchor gaining and the asset losing over two
\* steps, the anchor's return the greater one at each: the adjusted path ends
\* above the raw one
C11_Witness ==
    /\ Enforced
    /\ adjustment_strength = 7
    /\ "QQQ" \in WithBeta
    /\ betas["QQQ"] = 100
    /\ predictions_dict[reference_ticker] = <<59100, 59100, 59700>>
    /\ predictions_dict["QQQ"] = <<55000, 53900, 53900>>
    /\ ExpectedAbove("QQQ")
    /\ EndsHigher("QQQ")

(***************************************************************************)
(* Claims about the signal payload                                         *)
(***************************************************************************)
\* C12: every Signal has a confidence in [0, 1]: for BUY the bullish score
\* capped at 1, for SELL the bearish score capped at 1, for HOLD
\* 1 - |bullish_score - bearish_score|; for every combination of flags and
\* every asset class (the weights of gold add up to 1.05).
C12_ConfidenceRange ==
    sg_pc = "done" =>
        /\ signal_data.confidence >= 0
        /\ signal_data.confidence <= 100
        /\ signal_data.signal = "BUY" =>
              signal_data.confidence = (IF BullishWeight < 100 THEN BullishWeight ELSE 100)
        /\ signal_data.signal = "SELL" =>
              signal_data.confidence = (IF BearishWeight < 100 THEN BearishWeight ELSE 100)
        /\ signal_data.signal = "HOLD" =>
              signal_data.confidence = 100 - Abs(BullishWeight - BearishWeight)

\* gold with all four factors bullish: the score 1.05 is capped
C12_Witness ==
    /\ sg_pc = "done"
    /\ sg_asset = "gold"
    /\ BullishWeight = 105
    /\ signal_data.signal = "BUY"
    /\ signal_data.confidence = 100

\* C15: a NaN prediction is caught before the signal layer: no Signal that
\* generate_signal returns has a NaN target_price, risk_reward or forecast
\* factor score.
C15_NoNaNInSignal ==
    sg_pc = "done" =>
        /\ ~IsNaN(signal_data.target_price)
        /\ ~IsNaN(signal_data.risk_reward)
        /\ ~IsNaN(signal_data.factors["forecast"].score)

\* C19: the forecast factor's score is min(|pct_change| / 10, 1) for every
\* one-week percentage change that is a number, and the score of each of the
\* four factors lies in [0, 1].
C19_ForecastScoreCapped ==
    (sg_pc = "done" /\ ~IsNaN(forecast_1w.pct_change)) =>
        /\ factors["forecast"].score =
              (IF Abs(forecast_1w.pct_change) < 1000
               THEN Abs(forecast_1w.pct_change) ELSE 1000)
        /\ \A n \in DOMAIN factors : factors[n].score >= 0 /\ factors[n].score <= 1000

\* C20: for BUY, SELL and HOLD alike the target_price of the Signal is the
\* one-week forecast price (here: whenever that price is a number).
C20_TargetIsForecast ==
    (sg_pc = "done" /\ ~IsNaN(forecast_1w.predicted)) =>
        signal_data.target_price = forecast_1w.predicted

(***************************************************************************)
(* Claims about the forecast analyzer                                      *)
(***************************************************************************)
\* |total_change_pct| of the returned insights
AbsChange == Abs(insights.change_pct)

\* C17: risk_level is high exactly when volatility is high or
\* |total_change_pct| > 20, medium exactly when that fails and volatility is
\* medium or |total_change_pct| > 10, low otherwise; for
\* analyze(100, [102, 105, 108, 112, 115, 118, 120]) the trend is bullish, the
\* strength strong or moderate, the change exactly +20%, which alone does
\* not make the risk high.
C17_RiskLevel ==
    an_pc = "done" =>
        LET high == insights.volatility = "high" \/ AbsChange > 2000
            medium == ~high /\ (insights.volatility = "medium" \/ AbsChange > 1000)
        IN  /\ insights.risk_level = "high" <=> high
            /\ insights.risk_level = "medium" <=> medium
            /\ insights.risk_level = "low" <=> (~high /\ ~medium)
            /\ insights.volatility = volatility_of(an_forecast)
            /\ (an_current = 100000 /\ an_forecast = TestPath) =>
                  /\ insights.trend = "bullish"
                  /\ insights.strength \in {"strong", "moderate"}
                  /\ insights.change_pct = 2000
                  /\ insights.risk_level = "high" <=> insights.volatility = "high"

\* the test path analysed: +20%, low volatility, medium risk
C17_Witness ==
    /\ an_pc = "done"
    /\ an_current = 100000
    /\ an_forecast = TestPath
    /\ insights.volatility = "low"
    /\ insights.risk_level = "medium"

\* C18: key_levels is strictly increasing and holds exactly the distinct
\* values among current_price, current_price * 1.05, current_price * 0.95 and
\* the final forecast price.
C18_KeyLevels ==
    an_pc = "done" =>
        LET levels == insights.key_levels
        IN  /\ \A k \in 1..(Len(levels) - 1) : levels[k] < levels[k + 1]
            /\ {levels[k] : k \in 1..Len(levels)} =
                  {an_current, RoundDiv(an_current * 105, 100),
                   RoundDiv(an_current * 95, 100), an_forecast[Len(an_forecast)]}

(***************************************************************************)
(* Claims about the batch functions and the degraded results               *)
(***************************************************************************)
\* the keys of the list processed so far
Processed == {asset_keys[j] : j \in 1..bt_k}

\* C13: a batch function returns one entry per requested key, each entry
\* that asset's value or an error marker; an asset that fails stops neither
\* the assets before it nor those after it.
C13_BatchIsolation ==
    /\ bt_pc # "raised"
    /\ bt_pc \in {"loop", "done"} =>
          /\ DOMAIN results = Processed
          /\ \A key \in DOMAIN results :
                results[key].is_error <=> results[key].value = NoRecord
    /\ bt_pc = "done" => Processed = {asset_keys[j] : j \in 1..Len(asset_keys)}

\* the second of three assets failed; the first and the third have values
C13_Witness ==
    /\ bt_pc = "done"
    /\ Len(asset_keys) = 3
    /\ asset_keys[1] # asset_keys[2]
    /\ asset_keys[2] # asset_keys[3]
    /\ asset_keys[1] # asset_keys[3]
    /\ ~results[asset_keys[1]].is_error
    /\ results[asset_keys[2]].is_error
    /\ ~results[asset_keys[3]].is_error

\* C14: a result built from an empty path reports the current price as the
\* predicted one and carries an error marker of its own: predict_tomorrow,
\* predict_week, and every timeframe entry of get_multi_range_forecast.
C14_DegradedIsFlagged ==
    \A key \in DOMAIN results :
        (engine[key] = "empty" /\ ~results[key].is_error) =>
            LET v == results[key].value
            IN  /\ bt_op \in {"batch_predict_tomorrow", "batch_predict_week"} =>
                      v.predicted = v.current /\ v.error
                /\ bt_op = "batch_multi_range_forecast" =>
                      \A label \in DOMAIN v.ranges :
                          /\ v.ranges[label].price = v.Current
                          /\ "error" \in DOMAIN v.ranges[label]

(***************************************************************************)
(* Claims about repeated forecasts                                         *)
(***************************************************************************)
\* C16: two calls of recursive_forecast(steps) on one AssetPredictor with
\* the same steps, over unchanged data, model and scaler, end the same way
\* and return identical paths.
C16_Deterministic ==
    \A a \in 1..Len(fc_log), b \in 1..Len(fc_log) :
        fc_log[a].steps = fc_log[b].steps => fc_log[a] = fc_log[b]

\* a second call returned the path of the first, three prices long, from
\* cached data and an already loaded model
C16_Witness ==
    /\ Len(fc_log) = 2
    /\ fc_log[1].steps = 3
    /\ fc_log[2].steps = 3
    /\ Len(fc_log[2].result) = 3
    /\ fc_log[2].result[3] # fc_log[2].result[1]
    /\ fc_log[1].result = fc_log[2].result


(***************************************************************************)
(* C21: in every Signal the stop loss is entry_price * 0.95 for BUY and    *)
(* entry_price * 1.05 for SELL, and risk_reward is                         *)
(* |target_price - entry_price| / |stop_loss - entry_price| when the stop  *)
(* differs from the entry and 0 when they are equal (HOLD, and an entry    *)
(* price of zero in either direction).                                     *)
(***************************************************************************)
C21_StopAndRiskReward ==
    sg_pc = "done" =>
        LET sd == signal_data
        IN  /\ sd.signal = "BUY" => sd.stop_loss = RoundDiv(sd.entry_price * 95, 100)
            /\ sd.signal = "SELL" => sd.stop_loss = RoundDiv(sd.entry_price * 105, 100)
            /\ sd.stop_loss = sd.entry_price => sd.risk_reward = 0
            /\ sd.stop_loss # sd.entry_price =>
                   sd.risk_reward =
                       IF IsNaN(sd.target_price) THEN NaN
                       ELSE RoundDiv(Abs(sd.target_price - sd.entry_price) * 1000,
                                     Abs(sd.stop_loss - sd.entry_price))

\* a SELL whose stop lies 5% above the entry and whose ratio is positive
C21_Witness ==
    /\ sg_pc = "done"
    /\ signal_data.signal = "SELL"
    /\ signal_data.entry_price = CurrentPrice
    /\ signal_data.stop_loss = 10500
    /\ signal_data.target_price = 9000
    /\ signal_data.risk_reward = 2000

\* a BUY at an entry price of zero: the stop equals the entry, the ratio is 0
C21_ZeroEntry ==
    /\ sg_pc = "done"
    /\ signal_data.signal = "BUY"
    /\ signal_data.entry_price = 0
    /\ signal_data.stop_loss = 0
    /\ signal_data.risk_reward = 0

\* the returns of the anchor and of ticker t over the lookback window, as
\* the constructor computed them from the two joined files
WindowReturns(t) ==
    LET m == merged(ref_hist, asset_hist[t])
    IN  [ref |-> pct_returns(LastN(m.ref, LookbackDays)),
         asset |-> pct_returns(LastN(m.asset, LookbackDays))]

\* C22: the beta stored at construction is 0 when the anchor's returns over
\* the lookback window have zero variance, and cov(asset_returns,
\* anchor_returns) / var(anchor_returns) otherwise.
C22_ZeroVarianceBeta ==
    \A t \in DOMAIN betas :
        LET w == WindowReturns(t)
        IN  IF np_var(w.ref) = 0
            THEN betas[t] = 0
            ELSE betas[t] = RoundDiv(np_cov(w.asset, w.ref) * 100, np_var(w.ref))

\* C23: for every non-anchor asset with a beta and every strength, the
\* adjusted path has the raw path's length, starts at the raw path's first
\* price, and each later price is the previous adjusted price times
\* (1 + (1 - strength) * raw_return_k + strength * beta * anchor_return_k).
C23_BlendAndCompound ==
    Enforced =>
        \A t \in WithBeta :
            LET raw == predictions_dict[t]
                adj == adjusted_predictions[t]
                raw_returns == pct_returns(raw)
                ref_returns == pct_returns(predictions_dict[reference_ticker])
            IN  /\ Len(adj) = Len(raw)
                /\ adj[1] = raw[1]
                /\ \A k \in 1..(Len(adj) - 1) :
                      /\ k <= Len(raw_returns)
                      /\ k <= Len(ref_returns)
                      /\ adj[k + 1] =
                            compound(adj[k],
                                RoundDiv((10 - adjustment_strength) * raw_returns[k], 10)
                                + RoundDiv(adjustment_strength
                                           * RoundDiv(betas[t] * ref_returns[k], 100), 10))

\* the same statement for the calls whose paths all have the anchor's length
C23_EqualLengths ==
    (Enforced /\ \E t \in WithBeta :
                    Len(predictions_dict[t]) # Len(predictions_dict[reference_ticker]))
    \/ C23_BlendAndCompound

\* the assets of the call whose path cannot be adjusted: their returns do
\* not broadcast against the anchor's, or their path is empty
Unadjustable ==
    {t \in WithBeta :
        enforce_one(t, predictions_dict, betas, adjustment_strength).error # "none"}

\* C24: an asset whose path cannot be adjusted does not abort the call: the
\* call returns, the other assets carry their adjusted paths, and the
\* failing asset carries its unmodified path or an error marker.
C24_FailureIsolated ==
    (enf_pc # "ready" /\ reference_ticker \in DOMAIN predictions_dict
        /\ DOMAIN betas # {} /\ Unadjustable # {}) =>
        /\ enf_pc = "returned"
        /\ DOMAIN adjusted_predictions = DOMAIN predictions_dict
        /\ \A t \in DOMAIN predictions_dict \ Unadjustable :
              adjusted_predictions[t] =
                  enforce_one(t, predictions_dict, betas, adjustment_strength).path

\* the macro / sentiment features of the asset being forecast, by position
MacroFeatures ==
    {f \in 1..Len(features(asset_key)) :
        features(asset_key)[f] \in {"Sentiment", "DXY", "VIX", "Yield_10Y"}}

\* the newest frame of the window
NewestFrame(window) == window[Len(window)]

(***************************************************************************)
(* C25: at every step of a forecast run each macro / sentiment feature of  *)
(* the newest frame follows new = old + (mean - old) * 0.002: its distance *)
(* to the normalized historical mean is multiplied by 0.998 (up to the     *)
(* rounding of one grid unit), does not grow, the value does not cross the *)
(* mean, and a value equal to the mean stays there.                        *)
(***************************************************************************)
C25_MacroDrift ==
    [][(fc_pc = "loop" /\ i' = i + 1) =>
        \A f \in MacroFeatures :
            LET old == NewestFrame(temp_data)[f]
                new == NewestFrame(temp_data')[f]
                target == scaled_means[f]
                before == Abs(old - target)
                after == Abs(new - target)
            IN  /\ Abs((before - after) * 1000 - before * 2) <= 1000
                /\ after <= before
                /\ old <= target => new <= target
                /\ old >= target => new >= target
                /\ old = target => new = target]_vars

\* two steps into a run a macro feature has moved from its starting value
\* and has not reached the mean
C25_Witness ==
    /\ fc_pc = "loop"
    /\ i = 2
    /\ \E f \in MacroFeatures :
          /\ NewestFrame(temp_data)[f] # scaled_means[f]
          /\ NewestFrame(temp_data)[f] # NewestFrame(current_batch)[f]
          /\ Abs(NewestFrame(temp_data)[f] - scaled_means[f])
                < Abs(NewestFrame(current_batch)[f] - scaled_means[f])

\* the last call on the enforcer was validate_enforcement
ValidatedLast == enf_pc \in {"validated", "validate_raised"}

(***************************************************************************)
(* C26: after construction, whatever sequence of enforce_predictions and   *)
(* validate_enforcement calls is made, betas and correlations are what the *)
(* constructor computed, and the dict a call was given, with every path    *)
(* list in it, is after the call what it was when it was passed.           *)
(***************************************************************************)
C26_ReadOnlyAfterConstruction ==
    /\ betas = calculate_betas(ref_hist, asset_hist)
    /\ correlations = calculate_correlations(ref_hist, asset_hist)
    /\ enf_calls > 0 =>
          caller_dict = IF ValidatedLast THEN adjusted_predictions
                        ELSE predictions_dict

\* a third call, a validation, after an enforcement that changed a path
C26_Witness ==
    /\ enf_calls = 3
    /\ enf_pc = "validated"
    /\ metrics.valid
    /\ "QQQ" \in WithBeta
    /\ adjusted_predictions["QQQ"] # predictions_dict["QQQ"]

\* every price of every input path of the last enforce_predictions call is
\* strictly positive
PositiveInputs ==
    \A t \in DOMAIN predictions_dict :
        \A k \in 1..Len(predictions_dict[t]) : predictions_dict[t][k] > 0

\* C29: when every input price is strictly positive and the strength lies in
\* [0, 1], every price of every adjusted path is strictly positive, whatever
\* the stored betas are.
C29_AdjustedPricesPositive ==
    (PositiveInputs /\ adjustment_strength \in 0..10) =>
        \A t \in DOMAIN adjusted_predictions :
            \A k \in 1..Len(adjusted_predictions[t]) : adjusted_predictions[t][k] > 0

\* C27: a BUY has target_price >= entry_price and a SELL has
\* target_price <= entry_price: no BUY is issued with a one-week forecast
\* below the entry price, no SELL with one above it.
C27_TargetOnTheSideOfTheSignal ==
    sg_pc = "done" =>
        /\ signal_data.signal = "BUY" =>
              ~Lt(signal_data.target_price, signal_data.entry_price)
        /\ signal_data.signal = "SELL" =>
              ~Gt(signal_data.target_price, signal_data.entry_price)

\* C28: no factor of _analyze_factors is flagged bullish and bearish at the
\* same time, so no factor's weight enters both scores.
C28_FactorFlagsExclusive ==
    sg_pc = "done" =>
        \A n \in DOMAIN factors : ~(factors[n].bullish /\ factors[n].bearish)

\* the order low < medium < high of the volatility and risk labels
LabelRank(label) == CASE label = "low" -> 0 [] label = "medium" -> 1 [] label = "high" -> 2

(***************************************************************************)
(* C30: the labels of analyze_forecast are consistent: a neutral trend     *)
(* comes with weak strength and the 'Hold current positions'               *)
(* recommendation, strong strength comes with a non-neutral trend and a    *)
(* risk_level of medium or high, and risk_level is never below the         *)
(* volatility label.                                                       *)
(***************************************************************************)
C30_LabelsConsistent ==
    an_pc = "done" =>
        /\ insights.trend = "neutral" =>
              /\ insights.strength = "weak"
              /\ insights.recommendation = "Hold current positions"
        /\ insights.strength = "strong" =>
              /\ insights.trend # "neutral"
              /\ insights.risk_level \in {"medium", "high"}
        /\ LabelRank(insights.risk_level) >= LabelRank(insights.volatility)

\* a path that swings by a fifth and ends where it began: neutral, weak,
\* hold, high volatility and high risk
C30_Witness ==
    /\ an_pc = "done"
    /\ an_current = 100000
    /\ an_forecast = <<79000, 121000, 100003>>
    /\ insights.trend = "neutral"
    /\ insights.strength = "weak"
    /\ insights.recommendation = "Hold current positions"
    /\ insights.volatility = "high"
    /\ insights.risk_level = "high"

\* a fall of 21%: bearish, strong, high risk
C30_StrongWitness ==
    /\ an_pc = "done"
    /\ insights.trend = "bearish"
    /\ insights.strength = "strong"
    /\ insights.recommendation = "Consider taking profits or reducing exposure"
    /\ insights.risk_level = "high"
    /\ insights.volatility = "low"

====
